---- MODULE Spec2Model ----
(***************************************************************************)
(* A model of the REopt job lifecycle client, src/reopt-single-scenario.ts *)
(* (class REoptApiClient): getApiResults (submit, poll, save, return),     *)
(* printResultsSummary, the save and load methods of the store,            *)
(* getResultsManually, and the workflow runSingleScenarioExample.          *)
(*                                                                         *)
(* JavaScript runs the body of an async function without interruption      *)
(* between two awaits, so one action of the model is one such stretch of   *)
(* code: from the call to the first await, or from the settling of one     *)
(* awaited promise to the next await, return or throw.  The remote service *)
(* and the timer are the environment: they settle each awaited promise,    *)
(* with a response or an error the model draws from small sets.  A         *)
(* response body is a JSON object (REoptResponse), with or without the     *)
(* status field; fs.writeFileSync into the directories the constructor     *)
(* created succeeds.                                                       *)
(***************************************************************************)
EXTENDS Integers, Sequences, FiniteSets, TLC

(***************************************************************************)
(* Bounds of the model.                                                    *)
(***************************************************************************)
\* how many distinct run_uuid values the service can hand out
NumHandles == 2
\* how many status strings other than 'optimal' and 'error' the service uses
NumOtherStatus == 2
\* how many distinct output file names a caller can pass
NumNames == 2

HandlePool == <<"uuid-1", "uuid-2", "uuid-3", "uuid-4">>
StatusPool == <<"Optimizing...", "pending", "queued", "v99-new-status">>
NamePool   == <<"results_file", "response_2", "other_1", "other_2">>

Handles       == {HandlePool[i] : i \in 1..NumHandles}
OtherStatuses == {StatusPool[i] : i \in 1..NumOtherStatus}
FileNames     == {NamePool[i] : i \in 1..NumNames}

(***************************************************************************)
(* Values of the program.                                                  *)
(***************************************************************************)
\* the JavaScript value undefined: an omitted optional argument, the value
\* of a field a document does not have
Undefined == "undefined"

\* const maxAttempts = 120
maxAttempts == 120

\* the two invocations of getApiResults the model follows
Runs == {"runA", "runB"}

\* what the service can put in the status field of a result document
\* (Undefined: the document has no status field)
Statuses == {"optimal", "error"} \cup OtherStatuses \cup {Undefined}

\* the document the service returns for GET /job/{h}/results: the fields of
\* REoptResponse the client reads or that identify the job
ResultDoc(h, s) == [status |-> s, run_uuid |-> h]

\* no document: the variable is not bound
NoDoc == [none |-> TRUE]

\* the errors axios rejects with: a network failure, a non-2xx answer
AdapterErrors == {"TransportError", "RejectedError"}
AxiosError(k) == [kind |-> k, message |-> "request failed", handle |-> Undefined]
NoError == [none |-> TRUE]

\* a rejected request: call is "post" or "get"
Rejected(call, e) == [call |-> call, error |-> e]
NoFailure == [none |-> TRUE]

\* A request document (REoptInput): its top-level members, each an opaque
\* value the client never looks into.  load names the building and the
\* annual consumption, tariff the rate (a urdb_label, with or without a
\* custom urdb_response).
PostDoc(load, tariff) ==
  [Site |-> "34.58,-118.12", PV |-> "array_type 0", ElectricLoad |-> load,
   ElectricTariff |-> tariff, Financial |-> "20 years"]

PostDocs ==
  {PostDoc("RetailStore 100000", "urdb_label"),
   PostDoc("Hospital 12000", "urdb_label urdb_response")}

\* createSampleScenario()
SampleScenario == PostDoc("RetailStore 100000", "urdb_label")

\* the outcome of a load method: the document it returned, the null it
\* returned, or the error fs.readFileSync threw
Returned(path, doc) == [path |-> path, outcome |-> "document", doc |-> doc]
ReturnedNull(path) == [path |-> path, outcome |-> "null", doc |-> NoDoc]
Threw(path) == [path |-> path, outcome |-> "ENOENT", doc |-> NoDoc]
NotLoaded == [none |-> TRUE]

\* new Error('API polling timed out'): an Error object has a message and
\* nothing else; it has no property holding the run_uuid
TimeoutError == [kind |-> "Error", message |-> "API polling timed out",
                 handle |-> Undefined]

VARIABLES
  pc,          \* pc[r]: where run r is: "idle", "submitting" (await axios.post),
               \* "fetching" (await axios.get), "sleeping" (await this.sleep),
               \* "returned", "thrown"
  runId,       \* runId[r]: the runId argument of the call (Undefined: omitted)
  outName,     \* outName[r]: the outputFileName argument of the call
  runUuid,     \* runUuid[r]: const runUuid, from the submit response
  attempts,    \* attempts[r]: let attempts
  result,      \* result[r]: const result of the current loop iteration; the
               \* value returned when pc[r] = "returned"
  error,       \* error[r]: the error run r threw to its caller
  submits,     \* submits[r]: axios.post calls made by run r
  fetches,     \* fetches[r]: axios.get calls made by run r
  targets,     \* targets[r]: the run_uuids in the URLs of those axios.get calls
  sleeps,      \* sleeps[r]: this.sleep calls of run r that have completed
  saves,       \* saves[r]: fs.writeFileSync calls made by run r
  waits,       \* waits[r]: responses with a non-terminal status run r received
  failure,     \* failure[r]: the request of run r that axios rejected, and the
               \* error it rejected with
  posted,      \* posted[r]: the postData argument of the call, the body of
               \* the axios.post
  loaded,      \* the outcome of the last load method called
  written,     \* written[p]: the document given to the last write of file p
  manPc,       \* getResultsManually: "idle", "getting" (await axios.get),
               \* "returned", "thrown"
  manUuid,     \* getResultsManually: its argument runUuid
  manResult,   \* getResultsManually: the value it returned
  manError,    \* getResultsManually: the error it threw
  manGets,     \* getResultsManually: axios.get calls it made
  wfPc,        \* runSingleScenarioExample: "none", "start", "saved", "loaded",
               \* "awaiting" (await client.getApiResults), "presenting",
               \* "finished", "caught"
  wfPost,      \* runSingleScenarioExample: const loadedPost
  store,       \* the files: a function from <<directory, name>> to the text
  sumPc,       \* printResultsSummary: "none", "ready", "done", "raised"
  sumDoc,      \* printResultsSummary: its argument apiResponse
  printed      \* printResultsSummary: the lines it has logged, in order

runVars == <<pc, runId, outName, runUuid, attempts, result, error, submits,
             fetches, targets, sleeps, saves, waits, failure, posted>>
sumVars == <<sumPc, sumDoc, printed>>
manVars == <<manPc, manUuid, manResult, manError, manGets>>
wfVars == <<wfPc, wfPost>>
vars == <<pc, runId, outName, runUuid, attempts, result, error, submits,
          fetches, targets, sleeps, saves, waits, failure, posted, loaded,
          written, manPc, manUuid, manResult, manError, manGets, wfPc, wfPost,
          store, sumPc, sumDoc, printed>>

(***************************************************************************)
(* The Persistent Store: the files under ./inputs, ./outputs, ...          *)
(***************************************************************************)
\* the order in which JSON.stringify emits the keys of a result document
DocKeys == <<"status", "run_uuid">>

\* the order in which JSON.stringify emits the keys of a request document
PostKeys == <<"Site", "PV", "ElectricLoad", "ElectricTariff", "Financial">>

\* the keys of a rate definition (a URDB rate)
RateKeys == <<"label", "energyratestructure">>

\* a slip: the last member of the object is lost
JSONmembers_dropLast(doc, keys) ==
  [i \in 1..(Len(keys) - 1) |-> <<keys[i], doc[keys[i]]>>]

\* JSON.stringify of an object with the given keys: the members of the object
\* in key order; a key whose value is undefined is left out of the text
JSONmembers(doc, keys) ==
  SelectSeq([i \in 1..Len(keys) |-> <<keys[i], doc[keys[i]]>>],
            LAMBDA kv : kv[2] # Undefined)

\* JSON.stringify(result, null, 2), of a result document
JSONstringify(doc) == JSONmembers(doc, DocKeys)

\* JSON.parse(text), read as an object of the type with the given keys: a
\* key the text has no member for reads as undefined
JSONparse(text, keys) ==
  [k \in {keys[i] : i \in 1..Len(keys)} |->
     IF \E i \in 1..Len(text) : text[i][1] = k
       THEN text[CHOOSE i \in 1..Len(text) : text[i][1] = k][2]
       ELSE Undefined]

\* path.join(this.inputsPath, `${fileName}.json`)
InputPath(name) == <<"inputs", name>>

\* path.join(this.ratesPath, `${rateName}.json`)
RatePath(name) == <<"electric_rates", name>>

\* the document last given to a write of the file, kept beside the files
Record(w, path, doc) ==
  [p \in DOMAIN w \cup {path} |-> IF p = path THEN doc ELSE w[p]]

\* path.join(this.outputsPath, `${outputFileName}.json`)
OutputPath(name) == <<"outputs", name>>

\* a slip: the write leaves no other file behind
WriteFile_clobber(st, path, text) == [p \in {path} |-> text]

\* fs.writeFileSync(path, text): creates the file or truncates and replaces it
WriteFile(st, path, text) ==
  [p \in DOMAIN st \cup {path} |-> IF p = path THEN text ELSE st[p]]

\* the directories are empty after construction
NoFiles == [p \in {} |-> <<>>]

(***************************************************************************)
(* getApiResults                                                           *)
(***************************************************************************)
\* a slip: only 'error' ends the polling
IsTerminal_onlyError(s) == s = "error"

\* a slip: only 'optimal' ends the polling
IsTerminal_onlyOptimal(s) == s = "optimal"

\* a slip: every status but the service's 'Optimizing...' ends the polling
IsTerminal_notRunning(s) == s # StatusPool[1]

\* result.status === 'optimal' || result.status === 'error'
IsTerminal(s) == s = "optimal" \/ s = "error"

\* a slip: one iteration too few
LoopContinues_oneShort(a) == a < maxAttempts - 1

\* a slip: one iteration too many
LoopContinues_offByOne(a) == a <= maxAttempts

\* while (attempts < maxAttempts)
LoopContinues(a) == a < maxAttempts

\* a slip: the catch block throws a new error made from the message
CatchRethrow_wrap(e) == [kind |-> "Error", message |-> e.message,
                         handle |-> Undefined]

\* catch (error) { console.error(...); throw error; }
CatchRethrow(e) == e

\* a slip: the URL is built from the handle the run held before this step
LoopHead_staleHandle(r, a, h) ==
  IF LoopContinues(a)
    THEN /\ pc' = [pc EXCEPT ![r] = "fetching"]
         /\ fetches' = [fetches EXCEPT ![r] = @ + 1]
         /\ targets' = [targets EXCEPT ![r] = @ \cup {runUuid[r]}]
         /\ error' = error
    ELSE /\ pc' = [pc EXCEPT ![r] = "thrown"]
         /\ error' = [error EXCEPT ![r] = CatchRethrow(TimeoutError)]
         /\ UNCHANGED <<fetches, targets>>

\* the head of the polling loop, reached by run r with attempts = a: the next
\* axios.get on resultsUrl, or, the loop being over, throw new Error(...)
LoopHead(r, a, h) ==
  IF LoopContinues(a)
    THEN /\ pc' = [pc EXCEPT ![r] = "fetching"]
         /\ fetches' = [fetches EXCEPT ![r] = @ + 1]
         /\ targets' = [targets EXCEPT ![r] = @ \cup {h}]
         /\ error' = error
    ELSE /\ pc' = [pc EXCEPT ![r] = "thrown"]
         /\ error' = [error EXCEPT ![r] = CatchRethrow(TimeoutError)]
         /\ UNCHANGED <<fetches, targets>>

\* a slip: only a successful result is written
SaveResults_onlyOptimal(r, doc) ==
  IF doc.status = "optimal"
    THEN /\ store' = WriteFile(store, OutputPath(outName[r]), JSONstringify(doc))
         /\ written' = Record(written, OutputPath(outName[r]), doc)
         /\ saves' = [saves EXCEPT ![r] = @ + 1]
    ELSE UNCHANGED <<store, saves, written>>

\* a slip: the result is returned without being written
SaveResults_skip(r, doc) == UNCHANGED <<store, saves, written>>

\* fs.writeFileSync(outputPath, JSON.stringify(result, null, 2))
SaveResults(r, doc) ==
  /\ store' = WriteFile(store, OutputPath(outName[r]), JSONstringify(doc))
  /\ written' = Record(written, OutputPath(outName[r]), doc)
  /\ saves' = [saves EXCEPT ![r] = @ + 1]

\* getApiResults(postData, name, rid) is called: the code up to the first
\* await, which is the axios.post of the job
Call(r, name, rid) ==
  /\ pc[r] = "idle"
  /\ runId' = [runId EXCEPT ![r] = rid]
  /\ outName' = [outName EXCEPT ![r] = name]
  /\ submits' = [submits EXCEPT ![r] = @ + 1]
  /\ pc' = [pc EXCEPT ![r] = "submitting"]
  /\ posted' = [posted EXCEPT ![r] = SampleScenario]
  /\ written' = written
  /\ UNCHANGED <<runUuid, attempts, result, error, fetches, targets, sleeps,
                 saves, waits, failure, store, sumVars, loaded, manVars, wfVars>>

\* a slip: the run_uuid is kept in a field of the client, which every
\* invocation reads
SubmitResolves_sharedHandle(r, h) ==
  /\ pc[r] = "submitting"
  /\ runUuid' = [q \in Runs |-> h]
  /\ attempts' = [attempts EXCEPT ![r] = 0]
  /\ LoopHead(r, 0, h)
  /\ UNCHANGED <<posted, written>>
  /\ UNCHANGED <<runId, outName, result, submits, sleeps, saves, waits,
                 failure, store, sumVars, loaded, manVars, wfVars>>

\* the axios.post resolves with a response whose data.run_uuid is h
SubmitResolves(r, h) ==
  /\ pc[r] = "submitting"
  /\ runUuid' = [runUuid EXCEPT ![r] = h]
  /\ attempts' = [attempts EXCEPT ![r] = 0]
  /\ LoopHead(r, 0, h)
  /\ UNCHANGED <<posted, written>>
  /\ UNCHANGED <<runId, outName, result, submits, sleeps, saves, waits,
                 failure, store, sumVars, loaded, manVars, wfVars>>

\* the axios.post rejects
SubmitRejects(r, k) ==
  /\ pc[r] = "submitting"
  /\ failure' = [failure EXCEPT ![r] = Rejected("post", AxiosError(k))]
  /\ error' = [error EXCEPT ![r] = CatchRethrow(AxiosError(k))]
  /\ pc' = [pc EXCEPT ![r] = "thrown"]
  /\ UNCHANGED <<posted, written>>
  /\ UNCHANGED <<runId, outName, runUuid, attempts, result, submits, fetches,
                 targets, sleeps, saves, waits, store, sumVars, loaded, manVars, wfVars>>

\* the axios.get resolves with a document whose status is s
FetchResolves(r, s) ==
  /\ pc[r] = "fetching"
  /\ result' = [result EXCEPT ![r] = ResultDoc(runUuid[r], s)]
  /\ IF IsTerminal(s)
       THEN /\ SaveResults(r, ResultDoc(runUuid[r], s))
            /\ pc' = [pc EXCEPT ![r] = "returned"]
            /\ waits' = waits
       ELSE /\ pc' = [pc EXCEPT ![r] = "sleeping"]
            /\ waits' = [waits EXCEPT ![r] = @ + 1]
            /\ UNCHANGED <<store, saves, written>>
  /\ posted' = posted
  /\ UNCHANGED <<runId, outName, runUuid, attempts, error, submits, fetches,
                 targets, sleeps, failure, sumVars, loaded, manVars, wfVars>>

\* a slip: a rejected axios.get is caught inside the loop and polled again
FetchRejects_swallow(r, k) ==
  /\ pc[r] = "fetching"
  /\ failure' = [failure EXCEPT ![r] = Rejected("get", AxiosError(k))]
  /\ pc' = [pc EXCEPT ![r] = "sleeping"]
  /\ UNCHANGED <<posted, written>>
  /\ UNCHANGED <<runId, outName, runUuid, attempts, result, error, submits,
                 fetches, targets, sleeps, saves, waits, store, sumVars, loaded, manVars, wfVars>>

\* the axios.get rejects
FetchRejects(r, k) ==
  /\ pc[r] = "fetching"
  /\ failure' = [failure EXCEPT ![r] = Rejected("get", AxiosError(k))]
  /\ error' = [error EXCEPT ![r] = CatchRethrow(AxiosError(k))]
  /\ pc' = [pc EXCEPT ![r] = "thrown"]
  /\ UNCHANGED <<posted, written>>
  /\ UNCHANGED <<runId, outName, runUuid, attempts, result, submits, fetches,
                 targets, sleeps, saves, waits, store, sumVars, loaded, manVars, wfVars>>

\* the timer of this.sleep(5000) fires: attempts++, the iteration's result
\* goes out of scope, and the loop condition is evaluated again
SleepResolves(r) ==
  /\ pc[r] = "sleeping"
  /\ sleeps' = [sleeps EXCEPT ![r] = @ + 1]
  /\ attempts' = [attempts EXCEPT ![r] = @ + 1]
  /\ result' = [result EXCEPT ![r] = NoDoc]
  /\ LoopHead(r, attempts[r] + 1, runUuid[r])
  /\ UNCHANGED <<posted, written>>
  /\ UNCHANGED <<runId, outName, runUuid, submits, saves, waits, failure, store,
                 sumVars, loaded, manVars, wfVars>>

(***************************************************************************)
(* One invocation of getApiResults against the service.                    *)
(***************************************************************************)
FirstRun == "runA"

Init ==
  /\ pc = [r \in Runs |-> "idle"]
  /\ runId = [r \in Runs |-> Undefined]
  /\ outName = [r \in Runs |-> NamePool[1]]
  /\ runUuid = [r \in Runs |-> Undefined]
  /\ attempts = [r \in Runs |-> 0]
  /\ result = [r \in Runs |-> NoDoc]
  /\ error = [r \in Runs |-> NoError]
  /\ submits = [r \in Runs |-> 0]
  /\ fetches = [r \in Runs |-> 0]
  /\ targets = [r \in Runs |-> {}]
  /\ sleeps = [r \in Runs |-> 0]
  /\ saves = [r \in Runs |-> 0]
  /\ waits = [r \in Runs |-> 0]
  /\ failure = [r \in Runs |-> NoFailure]
  /\ posted = [r \in Runs |-> NoDoc]
  /\ loaded = NotLoaded
  /\ written = NoFiles
  /\ manPc = "idle"
  /\ manUuid = Undefined
  /\ manResult = NoDoc
  /\ manError = NoError
  /\ manGets = 0
  /\ wfPc = "none"
  /\ wfPost = NoDoc
  /\ store = NoFiles
  /\ sumPc = "none"
  /\ sumDoc = NoDoc
  /\ printed = <<>>

Next ==
  \/ \E name \in FileNames, rid \in Handles \cup {Undefined} :
       Call(FirstRun, name, rid)
  \/ \E h \in Handles : SubmitResolves(FirstRun, h)
  \/ \E k \in AdapterErrors : SubmitRejects(FirstRun, k)
  \/ \E s \in Statuses : FetchResolves(FirstRun, s)
  \/ \E k \in AdapterErrors : FetchRejects(FirstRun, k)
  \/ SleepResolves(FirstRun)

Spec == Init /\ [][Next]_vars

\* every awaited promise settles: the service answers each request and the
\* timer of each sleep fires
Settles(r) ==
  \/ \E h \in Handles : SubmitResolves(r, h)
  \/ \E k \in AdapterErrors : SubmitRejects(r, k)
  \/ \E s \in Statuses : FetchResolves(r, s)
  \/ \E k \in AdapterErrors : FetchRejects(r, k)
  \/ SleepResolves(r)

FairSpec == Init /\ [][Next]_vars /\ WF_vars(Settles(FirstRun))

(***************************************************************************)
(* Properties of getApiResults                                             *)
(***************************************************************************)
\* the status of the document run r is holding is terminal
TerminalSeen(r) ==
  /\ result[r] # NoDoc
  /\ result[r].status \in {"optimal", "error"}

\* run r is holding a document whose status is not terminal
NonTerminalSeen(r) ==
  /\ result[r] # NoDoc
  /\ result[r].status \notin {"optimal", "error"}

\* C1: a run called with a handle (runId) makes no submit (POST) call, and
\* every status fetch it makes uses the supplied handle.
C1_ResumeNeverSubmits ==
  \A r \in Runs :
    runId[r] # Undefined =>
      /\ submits[r] = 0
      /\ targets[r] \subseteq {runId[r]}

\* C2: a run called without a handle that received k non-terminal statuses
\* (0 <= k < maxAttempts) and then 'optimal' has returned, after exactly one
\* submit, exactly k + 1 status fetches and exactly k sleeps.
C2_SucceededAfterK ==
  \A r \in Runs :
    (runId[r] = Undefined /\ result[r] # NoDoc /\ result[r].status = "optimal") =>
      /\ waits[r] \in 0..(maxAttempts - 1)
      /\ pc[r] = "returned"
      /\ submits[r] = 1
      /\ fetches[r] = waits[r] + 1
      /\ sleeps[r] = waits[r]

\* the case of C2 with the largest k: 'optimal' on the last fetch allowed
C2_Witness ==
  /\ pc[FirstRun] = "returned"
  /\ runId[FirstRun] = Undefined
  /\ result[FirstRun].status = "optimal"
  /\ waits[FirstRun] = maxAttempts - 1
  /\ sleeps[FirstRun] = maxAttempts - 1

\* C3: a run whose maxAttempts status fetches all returned a non-terminal
\* status has failed with the timeout error after exactly maxAttempts
\* fetches, and that error carries the run_uuid obtained at submission.
C3_TimeoutCarriesHandle ==
  \A r \in Runs :
    (waits[r] = maxAttempts /\ pc[r] # "sleeping") =>
      /\ pc[r] = "thrown"
      /\ error[r].message = "API polling timed out"
      /\ fetches[r] = maxAttempts
      /\ error[r].handle = runUuid[r]

\* C4: once a status fetch has returned 'optimal' or 'error', the run has
\* returned that document, and it makes no further fetch and no further
\* sleep.
C4_TerminalAbsorbing ==
  /\ [](\A r \in Runs :
          TerminalSeen(r) => (pc[r] = "returned" /\ error[r] = NoError))
  /\ [][\A r \in Runs :
          TerminalSeen(r) =>
            /\ fetches'[r] = fetches[r]
            /\ sleeps'[r] = sleeps[r]
            /\ result'[r] = result[r]
            /\ pc'[r] = pc[r]]_vars

\* the case of C4: 'error' observed after some polling
C4_Witness ==
  /\ pc[FirstRun] = "returned"
  /\ result[FirstRun].status = "error"
  /\ attempts[FirstRun] = 2
  /\ fetches[FirstRun] = 3

\* C5: a run whose submit call was rejected has thrown that same error, and
\* has made no status fetch, no sleep, no second submit and no save.
C5_SubmitFailureTerminal ==
  \A r \in Runs :
    (failure[r] # NoFailure /\ failure[r].call = "post") =>
      /\ pc[r] = "thrown"
      /\ error[r] = failure[r].error
      /\ submits[r] = 1
      /\ fetches[r] = 0
      /\ sleeps[r] = 0
      /\ saves[r] = 0
      /\ store = NoFiles

\* the case of C5: the service refused the submitted document
C5_Witness ==
  /\ failure[FirstRun] = Rejected("post", AxiosError("RejectedError"))
  /\ pc[FirstRun] = "thrown"

\* C6: a run one of whose status fetches was rejected has thrown that same
\* error; the failing fetch was its last one (no fetch, sleep or save
\* follows it), whatever the attempt counter was.
C6_FetchFailurePropagates ==
  /\ [](\A r \in Runs :
          (failure[r] # NoFailure /\ failure[r].call = "get") =>
            /\ pc[r] = "thrown"
            /\ error[r] = failure[r].error
            /\ fetches[r] = waits[r] + 1
            /\ sleeps[r] = waits[r]
            /\ saves[r] = 0)
  /\ [][\A r \in Runs :
          (failure[r] # NoFailure /\ failure[r].call = "get") =>
            /\ fetches'[r] = fetches[r]
            /\ sleeps'[r] = sleeps[r]
            /\ saves'[r] = saves[r]
            /\ store' = store]_vars

\* the case of C6: the last fetch allowed is the one that fails
C6_Witness ==
  /\ failure[FirstRun] = Rejected("get", AxiosError("TransportError"))
  /\ pc[FirstRun] = "thrown"
  /\ attempts[FirstRun] = maxAttempts - 1

\* C7: on a status that is neither 'optimal' nor 'error' (a missing status
\* field included) the run does not fail: it sleeps, and when the sleep is
\* over it increments the attempt counter and, the counter being below
\* maxAttempts, fetches again.
C7_UnknownStatusIsRunning ==
  /\ [](\A r \in Runs :
          NonTerminalSeen(r) =>
            (pc[r] = "sleeping" /\ error[r] = NoError /\ saves[r] = 0))
  /\ [][\A r \in Runs :
          (NonTerminalSeen(r) /\ pc'[r] # pc[r]) =>
            /\ sleeps'[r] = sleeps[r] + 1
            /\ attempts'[r] = attempts[r] + 1
            /\ (attempts'[r] < 120 =>
                  /\ pc'[r] = "fetching"
                  /\ fetches'[r] = fetches[r] + 1
                  /\ error'[r] = NoError)]_vars

\* the case of C7: a response with no status field, received after an
\* earlier non-terminal response, has sent the run to sleep once more
C7_Witness ==
  /\ pc[FirstRun] = "sleeping"
  /\ result[FirstRun].status = Undefined
  /\ attempts[FirstRun] = 1
  /\ waits[FirstRun] = 2

\* getApiResults(postData, outputFileName, runId) has no parameter through
\* which a caller could pass a completion hook
HookSupplied(r) == FALSE

\* C8 as stated: a run for which the caller supplied no hook performs no
\* store write.
C8_NoHookNoWrite ==
  \A r \in Runs :
    ~HookSupplied(r) => (saves[r] = 0 /\ OutputPath(outName[r]) \notin DOMAIN store)

\* C8 as amended: persistence is automatic.  A run has written to the store
\* exactly once if it has returned a result and not at all otherwise; the
\* step in which it returns is the step in which the file
\* outputs/<outputFileName>.json comes to hold the text of the returned
\* document, and the store changes in no other step of a run.
C8_PersistenceIsAutomatic ==
  /\ [](\A r \in Runs : saves[r] = IF pc[r] = "returned" THEN 1 ELSE 0)
  /\ [][\A r \in Runs :
          (pc[r] # "returned" /\ pc'[r] = "returned") =>
            /\ ~HookSupplied(r)
            /\ OutputPath(outName[r]) \in DOMAIN store'
            /\ store'[OutputPath(outName[r])] = JSONstringify(result'[r])]_vars
  /\ [][store' # store =>
          \E r \in Runs : pc[r] = "fetching" /\ pc'[r] = "returned"]_vars

\* the case of C8: a run called with a name of the caller's choosing has
\* returned 'optimal', and the file of that name holds the document
C8_Witness ==
  /\ pc[FirstRun] = "returned"
  /\ outName[FirstRun] = NamePool[2]
  /\ saves[FirstRun] = 1
  /\ store = [p \in {<<"outputs", NamePool[2]>>} |->
                <<<<"status", "optimal">>, <<"run_uuid", HandlePool[1]>>>>]

\* the state of the lifecycle run r is in
Phase(r) ==
  CASE pc[r] = "idle" -> "NotStarted"
    [] pc[r] = "submitting" -> "Submitted"
    [] pc[r] \in {"fetching", "sleeping"} -> "Polling"
    [] pc[r] = "returned" /\ result[r].status = "optimal" -> "Completed"
    [] pc[r] = "returned" /\ result[r].status = "error" -> "Failed"
    [] pc[r] = "thrown" /\ error[r] = TimeoutError -> "TimedOut"
    [] pc[r] = "thrown" /\ failure[r] # NoFailure
         /\ error[r] = failure[r].error -> "AdapterError"
    [] OTHER -> "Other"

\* the moves of the lifecycle
LifecycleMoves ==
  {<<"NotStarted", "Submitted">>, <<"Submitted", "Polling">>,
   <<"Submitted", "AdapterError">>, <<"Polling", "Polling">>,
   <<"Polling", "Completed">>, <<"Polling", "Failed">>,
   <<"Polling", "TimedOut">>, <<"Polling", "AdapterError">>}

\* C9: if every submit, fetch and sleep returns, every run that was started
\* ends, as Completed, Failed, TimedOut or with the adapter's error, after at
\* most one submit and at most maxAttempts (120) status fetches; it moves
\* only along Submitted -> Polling -> {Completed, Failed, TimedOut}, or out
\* of Submitted or Polling with the adapter's error, and an ended run moves
\* no more.
C9_RunTerminates ==
  /\ [](\A r \in Runs :
          /\ Phase(r) # "Other"
          /\ submits[r] <= 1
          /\ fetches[r] <= 120
          /\ attempts[r] <= 120)
  /\ [][\A r \in Runs :
          \/ pc'[r] = pc[r] /\ Phase(r)' = Phase(r)
          \/ <<Phase(r), Phase(r)'>> \in LifecycleMoves]_vars
  /\ \A r \in Runs :
       (pc[r] # "idle") ~>
         (Phase(r) \in {"Completed", "Failed", "TimedOut", "AdapterError"})

\* the case of C9: the longest run, which ends as TimedOut after
\* maxAttempts fetches and as many sleeps
C9_Witness ==
  /\ Phase(FirstRun) = "TimedOut"
  /\ fetches[FirstRun] = 120
  /\ sleeps[FirstRun] = 120
  /\ submits[FirstRun] = 1

(***************************************************************************)
(* printResultsSummary                                                     *)
(***************************************************************************)
\* The argument apiResponse, as far as printResultsSummary looks into it.
\* outputs and messages are objects that are there or not (present); in
\* outputs, Financial is there or not, and a technology of techList is
\* "absent", "plain" (an object with no key containing 'size') or, for PV,
\* "sized" (an object with the key size_kw) and, for GHP, "chosen" (an
\* object with ghpghx_chosen_outputs).  PV stands for the ten technologies
\* the loop treats alike.  In messages, info is a non-empty string or not
\* there, and errors and warnings are "absent", "empty" ({}) or "nonempty".
OutputsShapes ==
  {[present |-> FALSE, Financial |-> FALSE, PV |-> "absent", GHP |-> "absent"]}
  \cup [present : {TRUE}, Financial : BOOLEAN,
        PV : {"absent", "plain", "sized"}, GHP : {"absent", "plain", "chosen"}]

MessagesShapes ==
  {[present |-> FALSE, info |-> FALSE, errors |-> "absent", warnings |-> "absent"]}
  \cup [present : {TRUE}, info : BOOLEAN,
        errors : {"absent", "empty", "nonempty"},
        warnings : {"absent", "empty", "nonempty"}]

SummaryDocs ==
  [status : {"optimal", "error"}, run_uuid : Handles,
   outputs : OutputsShapes, messages : MessagesShapes]

\* console.log(`Status: ...`); console.log(`Run UUID: ...`)
HeaderLines(d) == <<"Status", "Run UUID">>

\* if (apiResponse.outputs?.Financial) { ... }
FinancialLines(d) ==
  IF d.outputs.present /\ d.outputs.Financial
    THEN <<"NPV ($)", "Capital Cost, Net ($)">>
    ELSE <<>>

\* the iteration of the loop over techList for tech = "PV"
PVLines(d) ==
  IF d.outputs.present /\ d.outputs.PV = "sized" THEN <<"PV size_kw">> ELSE <<>>

\* the iteration of the loop over techList for tech = "GHP"
GHPLines(d) ==
  IF d.outputs.present /\ d.outputs.GHP = "chosen"
    THEN <<"GHX Number of Boreholes", "GHP Heat Pump Capacity (ton)">>
    ELSE <<>>

\* if (apiResponse.messages.info) { ... }
InfoLines(d) == IF d.messages.info THEN <<"Info">> ELSE <<>>

\* Object.keys(v) throws a TypeError when v is undefined
ObjectKeysThrows(v) == v = "absent"

\* if (Object.keys(v).length > 0) { console.log(label, v) }
KeysLines(v, label) == IF v = "nonempty" THEN <<label>> ELSE <<>>

\* if (apiResponse.outputs) { ... Object.keys(apiResponse.outputs).forEach ... }
CategoryLines(d) ==
  IF d.outputs.present
    THEN <<"Available output categories">>
         \o (IF d.outputs.Financial THEN <<"  Financial">> ELSE <<>>)
         \o (IF d.outputs.PV # "absent" THEN <<"  PV">> ELSE <<>>)
         \o (IF d.outputs.GHP # "absent" THEN <<"  GHP">> ELSE <<>>)
    ELSE <<>>

\* printResultsSummary(sumDoc): the lines it logs, and whether it returns or
\* throws on the way
Summarize ==
  /\ sumPc = "ready"
  /\ LET d == sumDoc
         top == HeaderLines(d) \o FinancialLines(d) \o PVLines(d) \o GHPLines(d)
     IN  IF ~d.messages.present
           THEN /\ printed' = top \o CategoryLines(d)
                /\ sumPc' = "done"
           ELSE IF ObjectKeysThrows(d.messages.errors)
             THEN /\ printed' = top \o InfoLines(d)
                  /\ sumPc' = "raised"
             ELSE IF ObjectKeysThrows(d.messages.warnings)
               THEN /\ printed' = top \o InfoLines(d)
                                    \o KeysLines(d.messages.errors, "Errors")
                    /\ sumPc' = "raised"
               ELSE /\ printed' = top \o InfoLines(d)
                                    \o KeysLines(d.messages.errors, "Errors")
                                    \o KeysLines(d.messages.warnings, "Warnings")
                                    \o CategoryLines(d)
                    /\ sumPc' = "done"
  /\ UNCHANGED <<runVars, store, sumDoc, loaded, written, manVars, wfVars>>

\* printResultsSummary is called with a job result of any shape
InitSummary ==
  /\ pc = [r \in Runs |-> "idle"]
  /\ runId = [r \in Runs |-> Undefined]
  /\ outName = [r \in Runs |-> NamePool[1]]
  /\ runUuid = [r \in Runs |-> Undefined]
  /\ attempts = [r \in Runs |-> 0]
  /\ result = [r \in Runs |-> NoDoc]
  /\ error = [r \in Runs |-> NoError]
  /\ submits = [r \in Runs |-> 0]
  /\ fetches = [r \in Runs |-> 0]
  /\ targets = [r \in Runs |-> {}]
  /\ sleeps = [r \in Runs |-> 0]
  /\ saves = [r \in Runs |-> 0]
  /\ waits = [r \in Runs |-> 0]
  /\ failure = [r \in Runs |-> NoFailure]
  /\ posted = [r \in Runs |-> NoDoc]
  /\ loaded = NotLoaded
  /\ written = NoFiles
  /\ manPc = "idle"
  /\ manUuid = Undefined
  /\ manResult = NoDoc
  /\ manError = NoError
  /\ manGets = 0
  /\ wfPc = "none"
  /\ wfPost = NoDoc
  /\ store = NoFiles
  /\ sumPc = "ready"
  /\ sumDoc \in SummaryDocs
  /\ printed = <<>>

NextSummary == Summarize

SpecSummary == InitSummary /\ [][NextSummary]_vars

(***************************************************************************)
(* Properties of printResultsSummary                                       *)
(***************************************************************************)
\* C10: printResultsSummary never fails: whatever subset of outputs,
\* outputs.Financial, the technologies' outputs, messages, messages.info,
\* messages.errors and messages.warnings the job result has, the call
\* completes without raising, and logs no line for a field that is absent.
C10_SummarizeNeverFails ==
  /\ sumPc # "raised"
  /\ sumPc = "done" =>
       /\ (~(sumDoc.outputs.present /\ sumDoc.outputs.Financial) =>
             \A i \in 1..Len(printed) : printed[i] # "NPV ($)")
       /\ (~(sumDoc.messages.present /\ sumDoc.messages.info) =>
             \A i \in 1..Len(printed) : printed[i] # "Info")
       /\ (~sumDoc.outputs.present =>
             \A i \in 1..Len(printed) : printed[i] # "Available output categories")

(***************************************************************************)
(* The save and load methods of the store                                  *)
(***************************************************************************)
\* the result documents a caller saves and loads
ResponseDocs == {ResultDoc(HandlePool[1], s) : s \in {"optimal", "error", Undefined}}

\* a rate definition a user put under ./electric_rates
RateDoc == [label |-> "PGE_E20", energyratestructure |-> "tiers"]

\* savePostData(doc, name)
SavePostData(doc, name) ==
  /\ store' = WriteFile(store, InputPath(name), JSONmembers(doc, PostKeys))
  /\ written' = Record(written, InputPath(name), doc)
  /\ UNCHANGED <<runVars, loaded, sumVars, manVars, wfVars>>

\* a slip: a missing file is answered with null, as loadElectricRate does
LoadPostData_null(name) ==
  /\ loaded' = IF InputPath(name) \in DOMAIN store
                 THEN Returned(InputPath(name),
                               JSONparse(store[InputPath(name)], PostKeys))
                 ELSE ReturnedNull(InputPath(name))
  /\ UNCHANGED <<runVars, store, written, sumVars, manVars, wfVars>>

\* loadPostData(name): fs.readFileSync throws when there is no such file
LoadPostData(name) ==
  /\ loaded' = IF InputPath(name) \in DOMAIN store
                 THEN Returned(InputPath(name),
                               JSONparse(store[InputPath(name)], PostKeys))
                 ELSE Threw(InputPath(name))
  /\ UNCHANGED <<runVars, store, written, sumVars, manVars, wfVars>>

\* saveApiResponse(doc, name)
SaveApiResponse(doc, name) ==
  /\ store' = WriteFile(store, OutputPath(name), JSONstringify(doc))
  /\ written' = Record(written, OutputPath(name), doc)
  /\ UNCHANGED <<runVars, loaded, sumVars, manVars, wfVars>>

\* loadApiResponse(name): fs.readFileSync throws when there is no such file
LoadApiResponse(name) ==
  /\ loaded' = IF OutputPath(name) \in DOMAIN store
                 THEN Returned(OutputPath(name),
                               JSONparse(store[OutputPath(name)], DocKeys))
                 ELSE Threw(OutputPath(name))
  /\ UNCHANGED <<runVars, store, written, sumVars, manVars, wfVars>>

\* loadElectricRate(name): if (fs.existsSync(ratePath)) { ... } return null
LoadElectricRate(name) ==
  /\ loaded' = IF RatePath(name) \in DOMAIN store
                 THEN Returned(RatePath(name),
                               JSONparse(store[RatePath(name)], RateKeys))
                 ELSE ReturnedNull(RatePath(name))
  /\ UNCHANGED <<runVars, store, written, sumVars, manVars, wfVars>>

\* the files a user may have put under ./electric_rates before the client
\* is constructed; the client has no method that writes there
RateFiles ==
  {NoFiles, [p \in {RatePath(NamePool[1])} |-> JSONmembers(RateDoc, RateKeys)]}

\* a client whose store methods are called, in any order
InitStore ==
  /\ pc = [r \in Runs |-> "idle"]
  /\ runId = [r \in Runs |-> Undefined]
  /\ outName = [r \in Runs |-> NamePool[1]]
  /\ runUuid = [r \in Runs |-> Undefined]
  /\ attempts = [r \in Runs |-> 0]
  /\ result = [r \in Runs |-> NoDoc]
  /\ error = [r \in Runs |-> NoError]
  /\ submits = [r \in Runs |-> 0]
  /\ fetches = [r \in Runs |-> 0]
  /\ targets = [r \in Runs |-> {}]
  /\ sleeps = [r \in Runs |-> 0]
  /\ saves = [r \in Runs |-> 0]
  /\ waits = [r \in Runs |-> 0]
  /\ failure = [r \in Runs |-> NoFailure]
  /\ posted = [r \in Runs |-> NoDoc]
  /\ loaded = NotLoaded
  /\ store \in RateFiles
  /\ written = [p \in DOMAIN store |-> RateDoc]
  /\ manPc = "idle"
  /\ manUuid = Undefined
  /\ manResult = NoDoc
  /\ manError = NoError
  /\ manGets = 0
  /\ wfPc = "none"
  /\ wfPost = NoDoc
  /\ sumPc = "none"
  /\ sumDoc = NoDoc
  /\ printed = <<>>

NextStore ==
  \/ \E doc \in PostDocs, name \in FileNames : SavePostData(doc, name)
  \/ \E name \in FileNames : LoadPostData(name)
  \/ \E doc \in ResponseDocs, name \in FileNames : SaveApiResponse(doc, name)
  \/ \E name \in FileNames : LoadApiResponse(name)
  \/ \E name \in FileNames : LoadElectricRate(name)

SpecStore == InitStore /\ [][NextStore]_vars

(***************************************************************************)
(* Properties of the store                                                 *)
(***************************************************************************)
\* the step is a load that returned or threw something new
LoadStep == loaded' # loaded

\* C11: a load of a name of the submitted-request or raw-response category
\* that follows a save to that name returns a document, and the document
\* equals the one given to the most recent save to that name, whatever was
\* saved to other names or categories in between.
C11_SaveLoadRoundTrip ==
  [][(LoadStep /\ loaded'.path \in DOMAIN written) =>
       /\ loaded'.outcome = "document"
       /\ loaded'.doc = written[loaded'.path]
       /\ store' = store]_vars

\* the case of C11: a response with no status field was saved as response_2,
\* a request was saved under the same name afterwards, and the load of the
\* response returned it
C11_Witness ==
  /\ loaded = Returned(<<"outputs", NamePool[2]>>,
                       ResultDoc(HandlePool[1], Undefined))
  /\ <<"inputs", NamePool[2]>> \in DOMAIN store
  /\ <<"outputs", NamePool[1]>> \in DOMAIN store

\* C12 as stated: in every category, the load of a name under which nothing
\* was saved is an error, never a document or null.
C12_LoadMissingFails ==
  (loaded # NotLoaded /\ loaded.path \notin DOMAIN store) =>
    loaded.outcome = "ENOENT"

\* C12 as amended: the load of a name under which no file exists throws the
\* error of fs.readFileSync in the submitted-request and raw-response
\* categories (loadPostData, loadApiResponse) and returns null in the
\* rate-definition category (loadElectricRate); it never returns a document,
\* and no load changes the store.
C12_LoadMissingThrowsOrNull ==
  /\ []((loaded # NotLoaded /\ loaded.path \notin DOMAIN store) =>
          /\ loaded.doc = NoDoc
          /\ loaded.path[1] \in {"inputs", "outputs"} => loaded.outcome = "ENOENT"
          /\ loaded.path[1] = "electric_rates" => loaded.outcome = "null")
  /\ [][LoadStep => store' = store]_vars

\* the case of C12: a rate that is not there was loaded, with files in the
\* other categories
C12_Witness ==
  /\ loaded = ReturnedNull(<<"electric_rates", NamePool[2]>>)
  /\ <<"electric_rates", NamePool[2]>> \notin DOMAIN store
  /\ <<"inputs", NamePool[2]>> \in DOMAIN store

\* the files that differ between two states of the store
Changed(st1, st2) ==
  {p \in DOMAIN st1 \cup DOMAIN st2 :
     \/ p \notin DOMAIN st1
     \/ p \notin DOMAIN st2
     \/ st1[p] # st2[p]}

\* C13: every file holds the text of the document given to the most recent
\* save to its name and nothing of the earlier ones, so that a load returns
\* that document; a save changes at most the file of its own category and
\* name, and no file ever disappears.
C13_OverwriteReplaces ==
  /\ [](/\ DOMAIN store = DOMAIN written
        /\ \A p \in DOMAIN store :
             /\ p[1] = "inputs" => store[p] = JSONmembers(written[p], PostKeys)
             /\ p[1] = "outputs" => store[p] = JSONmembers(written[p], DocKeys))
  /\ [][/\ Changed(store, store') \subseteq Changed(written, written')
        /\ Cardinality(Changed(store, store')) <= 1
        /\ DOMAIN store \subseteq DOMAIN store']_vars

\* the case of C13: response_2 was saved as 'optimal' and then as 'error',
\* and the file holds 'error' only; the other files are there
C13_Witness ==
  /\ <<"outputs", NamePool[2]>> \in DOMAIN store
  /\ store[<<"outputs", NamePool[2]>>]
       = <<<<"status", "error">>, <<"run_uuid", HandlePool[1]>>>>
  /\ <<"outputs", NamePool[1]>> \in DOMAIN store
  /\ store[<<"outputs", NamePool[1]>>]
       = <<<<"status", "optimal">>, <<"run_uuid", HandlePool[1]>>>>
  /\ <<"inputs", NamePool[2]>> \in DOMAIN store

(***************************************************************************)
(* getResultsManually                                                      *)
(***************************************************************************)
\* getResultsManually(h) is called: the code up to await axios.get
ManualCall(h) ==
  /\ manPc = "idle"
  /\ manUuid' = h
  /\ manGets' = manGets + 1
  /\ manPc' = "getting"
  /\ UNCHANGED <<manResult, manError, runVars, store, loaded, written, sumVars,
                 wfVars>>

\* a slip: the manual fetch polls until the status is terminal
ManualResolves_poll(s) ==
  /\ manPc = "getting"
  /\ IF IsTerminal(s)
       THEN /\ manResult' = ResultDoc(manUuid, s)
            /\ manPc' = "returned"
            /\ manGets' = manGets
       ELSE /\ manGets' = manGets + 1
            /\ UNCHANGED <<manResult, manPc>>
  /\ UNCHANGED <<manUuid, manError, runVars, store, loaded, written, sumVars,
                 wfVars>>

\* the axios.get resolves with a document whose status is s: return
\* response.data
ManualResolves(s) ==
  /\ manPc = "getting"
  /\ manResult' = ResultDoc(manUuid, s)
  /\ manPc' = "returned"
  /\ UNCHANGED <<manUuid, manError, manGets, runVars, store, loaded, written,
                 sumVars, wfVars>>

\* the axios.get rejects: there is no try block, the error goes to the caller
ManualRejects(k) ==
  /\ manPc = "getting"
  /\ manError' = AxiosError(k)
  /\ manPc' = "thrown"
  /\ UNCHANGED <<manUuid, manResult, manGets, runVars, store, loaded, written,
                 sumVars, wfVars>>

\* a run of getApiResults with the default arguments, and beside it a call
\* of getResultsManually at any time, with any run_uuid
NextManual ==
  \/ Call(FirstRun, NamePool[1], Undefined)
  \/ \E h \in Handles : SubmitResolves(FirstRun, h)
  \/ \E k \in AdapterErrors : SubmitRejects(FirstRun, k)
  \/ \E s \in Statuses : FetchResolves(FirstRun, s)
  \/ \E k \in AdapterErrors : FetchRejects(FirstRun, k)
  \/ SleepResolves(FirstRun)
  \/ \E h \in Handles : ManualCall(h)
  \/ \E s \in Statuses : ManualResolves(s)
  \/ \E k \in AdapterErrors : ManualRejects(k)

SpecManual == Init /\ [][NextManual]_vars

(***************************************************************************)
(* Properties of getResultsManually                                        *)
(***************************************************************************)
\* C14: getResultsManually makes exactly one status request, for the
\* run_uuid it was given, and its answer ends the call: it returns the
\* document with whatever status it has, terminal or not, or throws; no step
\* of it submits, sleeps, fetches again or writes to the store.
C14_ManualFetchIsSnapshot ==
  /\ [](/\ manGets = (IF manPc = "idle" THEN 0 ELSE 1)
        /\ manPc = "returned" =>
             (manResult # NoDoc /\ manResult.run_uuid = manUuid
                /\ manError = NoError)
        /\ manPc # "returned" => manResult = NoDoc)
  /\ [][manPc' # manPc =>
          /\ manPc = "getting" => manPc' \in {"returned", "thrown"}
          /\ UNCHANGED <<submits, fetches, sleeps, saves, store, pc>>]_vars

\* the case of C14: the run timed out, and the manual fetch of its run_uuid
\* returned a document whose status is still not terminal
C14_Witness ==
  /\ pc[FirstRun] = "thrown"
  /\ error[FirstRun] = TimeoutError
  /\ manPc = "returned"
  /\ manUuid = runUuid[FirstRun]
  /\ manResult.status = StatusPool[1]
  /\ submits[FirstRun] = 1
  /\ store = NoFiles

(***************************************************************************)
(* Two invocations of getApiResults on one client, interleaved             *)
(***************************************************************************)
SecondRun == "runB"

\* the service gives every job it accepts a run_uuid of its own: the next
\* one not yet handed out
FreshHandle ==
  HandlePool[Cardinality({r \in Runs : runUuid[r] # Undefined}) + 1]

\* the statuses the service answers with while two jobs are polled
ConcStatuses == {"optimal", "error", StatusPool[1]}

\* both invocations are called without a runId, the first with the default
\* output name; the continuations of the two run in any order
NextConc ==
  \/ Call(FirstRun, NamePool[1], Undefined)
  \/ \E name \in FileNames : Call(SecondRun, name, Undefined)
  \/ \E r \in Runs : SubmitResolves(r, FreshHandle)
  \/ \E r \in Runs : SubmitRejects(r, "RejectedError")
  \/ \E r \in Runs, s \in ConcStatuses : FetchResolves(r, s)
  \/ \E r \in Runs : FetchRejects(r, "TransportError")
  \/ \E r \in Runs : SleepResolves(r)

SpecConc == Init /\ [][NextConc]_vars

(***************************************************************************)
(* Properties of interleaved invocations                                   *)
(***************************************************************************)
\* what belongs to invocation r alone: its position, its handle, its attempt
\* counter, the document it holds, the error it threw, and what it has done
Local(r) ==
  <<pc[r], runUuid[r], attempts[r], result[r], error[r], submits[r],
    fetches[r], targets[r], sleeps[r], saves[r], outName[r]>>

\* C15: when two invocations for different jobs interleave at their awaits,
\* a step of one changes nothing that belongs to the other; every fetch of
\* a run is for that run's own run_uuid, and the run returns the document of
\* its own job; a run that returns leaves its document in the file of its
\* output name, so that with the same name for both the file holds the
\* document of the run that returned last.
C15_RunsAreIndependent ==
  /\ [](\A r \in Runs :
          /\ targets[r] \subseteq {runUuid[r]}
          /\ sleeps[r] = attempts[r]
          /\ pc[r] = "returned" =>
               (result[r] # NoDoc /\ result[r].run_uuid = runUuid[r])
          /\ \A q \in Runs \ {r} :
               runUuid[r] # Undefined => runUuid[q] # runUuid[r])
  /\ [][\A r \in Runs :
          Local(r)' # Local(r) =>
            \A q \in Runs \ {r} : Local(q)' = Local(q)]_vars
  /\ [][\A r \in Runs :
          (pc[r] # "returned" /\ pc'[r] = "returned") =>
            /\ OutputPath(outName[r]) \in DOMAIN store'
            /\ store'[OutputPath(outName[r])] = JSONstringify(result'[r])
            /\ Changed(store, store') \subseteq {OutputPath(outName[r])}]_vars
  /\ [][store' # store =>
          \E r \in Runs : pc[r] # "returned" /\ pc'[r] = "returned"]_vars

\* the case of C15: both runs wrote results_file; the first run returned
\* 'error' after one sleep, the second has slept twice and returned 'optimal'
\* after it, and the file holds the document of the second
C15_Witness ==
  /\ pc[FirstRun] = "returned" /\ pc[SecondRun] = "returned"
  /\ outName[FirstRun] = outName[SecondRun]
  /\ runUuid[FirstRun] = HandlePool[2] /\ runUuid[SecondRun] = HandlePool[1]
  /\ attempts[FirstRun] = 1 /\ attempts[SecondRun] = 2
  /\ result[FirstRun].status = "error"
  /\ result[SecondRun].status = "optimal"
  /\ store[OutputPath(NamePool[1])]
       = <<<<"status", "optimal">>, <<"run_uuid", HandlePool[1]>>>>

(***************************************************************************)
(* Further properties of one invocation of getApiResults                   *)
(***************************************************************************)
\* C17: a run writes its output file at most once, and has written it
\* exactly if it has returned a result: then, for 'optimal' and for 'error'
\* alike, the file of its output name reads back as the returned document;
\* a run that threw (timeout, submit failure, fetch failure) wrote nothing.
C17_OutputWrittenOnReturn ==
  \A r \in Runs :
    /\ saves[r] \in {0, 1}
    /\ saves[r] = 1 <=> pc[r] = "returned"
    /\ pc[r] = "returned" =>
         /\ result[r].status \in {"optimal", "error"}
         /\ OutputPath(outName[r]) \in DOMAIN store
         /\ JSONparse(store[OutputPath(outName[r])], DocKeys) = result[r]
    /\ pc[r] = "thrown" =>
         /\ error[r] # NoError
         /\ OutputPath(outName[r]) \notin DOMAIN store

\* the case of C17: a run returned 'error' on its last attempt, and the file
\* holds that document
C17_Witness ==
  /\ pc[FirstRun] = "returned"
  /\ result[FirstRun] = ResultDoc(HandlePool[2], "error")
  /\ attempts[FirstRun] = maxAttempts - 1
  /\ saves[FirstRun] = 1
  /\ written = [p \in {OutputPath(outName[FirstRun])} |-> result[FirstRun]]

\* C18: in every state of a run, 0 <= attempts <= maxAttempts, the sleeps
\* completed are as many as attempts, and the status fetches issued are
\* attempts or attempts + 1; a run that timed out has slept maxAttempts
\* times, the last time after its last fetch.
C18_PollingCounters ==
  \A r \in Runs :
    /\ attempts[r] \in 0..maxAttempts
    /\ sleeps[r] = attempts[r]
    /\ fetches[r] \in {attempts[r], attempts[r] + 1}
    /\ pc[r] = "fetching" => fetches[r] = attempts[r] + 1
    /\ error[r] = TimeoutError =>
         /\ sleeps[r] = maxAttempts
         /\ fetches[r] = maxAttempts
         /\ waits[r] = maxAttempts

\* the case of C18: the run timed out
C18_Witness ==
  /\ pc[FirstRun] = "thrown"
  /\ error[FirstRun] = TimeoutError
  /\ attempts[FirstRun] = maxAttempts
  /\ sleeps[FirstRun] = maxAttempts

\* C19: a run called without a handle fetches only the run_uuid its own
\* submit response gave it: it has no handle and has fetched nothing before
\* that response arrives, every fetch it makes afterwards is for that one
\* run_uuid, and the handle does not change again.
C19_HandleIsFixed ==
  /\ [](\A r \in Runs :
          runId[r] = Undefined =>
            /\ targets[r] \subseteq {runUuid[r]}
            /\ pc[r] \in {"idle", "submitting"} =>
                 (runUuid[r] = Undefined /\ fetches[r] = 0 /\ targets[r] = {})
            /\ fetches[r] > 0 =>
                 (runUuid[r] \in Handles /\ targets[r] = {runUuid[r]}))
  /\ [][\A r \in Runs :
          runUuid'[r] # runUuid[r] =>
            (pc[r] = "submitting" /\ fetches[r] = 0)]_vars

\* the case of C19: a run without a handle has fetched uuid-2 three times
C19_Witness ==
  /\ runId[FirstRun] = Undefined
  /\ runUuid[FirstRun] = HandlePool[2]
  /\ fetches[FirstRun] = 3
  /\ targets[FirstRun] = {HandlePool[2]}
  /\ pc[FirstRun] = "fetching"

(***************************************************************************)
(* runSingleScenarioExample: the example run from its first line to its    *)
(* last, against a store an earlier execution may have left files in.      *)
(***************************************************************************)
\* the result an earlier execution of the example wrote
EarlierResult == ResultDoc("uuid-earlier", "optimal")

\* the request an earlier execution of the example wrote
EarlierPost == PostDoc("Hospital 12000", "urdb_label urdb_response")

\* the files under ./inputs and ./outputs when the example starts: none,
\* the request of an execution that failed, or all files of one that finished
PriorStores ==
  { NoFiles,
    [p \in {InputPath("post_2")} |-> JSONmembers(EarlierPost, PostKeys)],
    [p \in {InputPath("post_2"), OutputPath("results_file"),
            OutputPath("response_2")} |->
       IF p = InputPath("post_2")
         THEN JSONmembers(EarlierPost, PostKeys)
         ELSE JSONstringify(EarlierResult)] }

\* the shapes of the terminal response the example is given: outputs is not
\* there or is there with every category, messages is of any shape
WorkflowDocs ==
  {d \in SummaryDocs :
     \/ ~d.outputs.present
     \/ d.outputs = [present |-> TRUE, Financial |-> TRUE,
                     PV |-> "sized", GHP |-> "chosen"]}

\* const post1 = client.createSampleScenario()
WfStart ==
  /\ wfPc = "none"
  /\ wfPc' = "start"
  /\ UNCHANGED <<runVars, wfPost, store, written, loaded, sumVars, manVars>>

\* client.savePostData(post1, 'post_2')
WfSavePost ==
  /\ wfPc = "start"
  /\ store' = WriteFile(store, InputPath("post_2"),
                        JSONmembers(SampleScenario, PostKeys))
  /\ written' = Record(written, InputPath("post_2"), SampleScenario)
  /\ wfPc' = "saved"
  /\ UNCHANGED <<runVars, wfPost, loaded, sumVars, manVars>>

\* const loadedPost = client.loadPostData('post_2'); a throw of
\* fs.readFileSync lands in the catch block
WfLoadPost ==
  /\ wfPc = "saved"
  /\ IF InputPath("post_2") \in DOMAIN store
       THEN /\ loaded' = Returned(InputPath("post_2"),
                           JSONparse(store[InputPath("post_2")], PostKeys))
            /\ wfPost' = JSONparse(store[InputPath("post_2")], PostKeys)
            /\ wfPc' = "loaded"
       ELSE /\ loaded' = Threw(InputPath("post_2"))
            /\ wfPost' = wfPost
            /\ wfPc' = "caught"
  /\ UNCHANGED <<runVars, store, written, sumVars, manVars>>

\* a slip: the job is submitted from post1, before anything is saved
WfCall_direct ==
  /\ wfPc = "start"
  /\ pc[FirstRun] = "idle"
  /\ runId' = [runId EXCEPT ![FirstRun] = Undefined]
  /\ outName' = [outName EXCEPT ![FirstRun] = "results_file"]
  /\ submits' = [submits EXCEPT ![FirstRun] = @ + 1]
  /\ pc' = [pc EXCEPT ![FirstRun] = "submitting"]
  /\ posted' = [posted EXCEPT ![FirstRun] = SampleScenario]
  /\ wfPc' = "awaiting"
  /\ UNCHANGED <<runUuid, attempts, result, error, fetches, targets, sleeps,
                 saves, waits, failure, store, written, loaded, wfPost,
                 sumVars, manVars>>

\* await client.getApiResults(loadedPost, 'results_file'): the call, up to
\* its axios.post of loadedPost
WfCall ==
  /\ wfPc = "loaded"
  /\ pc[FirstRun] = "idle"
  /\ runId' = [runId EXCEPT ![FirstRun] = Undefined]
  /\ outName' = [outName EXCEPT ![FirstRun] = "results_file"]
  /\ submits' = [submits EXCEPT ![FirstRun] = @ + 1]
  /\ pc' = [pc EXCEPT ![FirstRun] = "submitting"]
  /\ posted' = [posted EXCEPT ![FirstRun] = wfPost]
  /\ wfPc' = "awaiting"
  /\ UNCHANGED <<runUuid, attempts, result, error, fetches, targets, sleeps,
                 saves, waits, failure, store, written, loaded, wfPost,
                 sumVars, manVars>>

\* getApiResults returned apiResponse, a document of shape d:
\* client.printResultsSummary(apiResponse) is entered
WfPresent(d) ==
  /\ wfPc = "awaiting"
  /\ pc[FirstRun] = "returned"
  /\ d.status = result[FirstRun].status
  /\ d.run_uuid = result[FirstRun].run_uuid
  /\ sumDoc' = d
  /\ sumPc' = "ready"
  /\ printed' = <<>>
  /\ wfPc' = "presenting"
  /\ UNCHANGED <<runVars, wfPost, store, written, loaded, manVars>>

\* printResultsSummary returned: client.saveApiResponse(apiResponse,
\* 'response_2'), and the example ends
WfSaveResponse ==
  /\ wfPc = "presenting"
  /\ sumPc = "done"
  /\ store' = WriteFile(store, OutputPath("response_2"),
                        JSONstringify(result[FirstRun]))
  /\ written' = Record(written, OutputPath("response_2"), result[FirstRun])
  /\ wfPc' = "finished"
  /\ UNCHANGED <<runVars, wfPost, loaded, sumVars, manVars>>

\* catch (error) { console.error(...) }: getApiResults threw, or
\* printResultsSummary did
WfCatch ==
  /\ \/ wfPc = "awaiting" /\ pc[FirstRun] = "thrown"
     \/ wfPc = "presenting" /\ sumPc = "raised"
  /\ wfPc' = "caught"
  /\ UNCHANGED <<runVars, wfPost, store, written, loaded, sumVars, manVars>>

InitWorkflow ==
  /\ pc = [r \in Runs |-> "idle"]
  /\ runId = [r \in Runs |-> Undefined]
  /\ outName = [r \in Runs |-> NamePool[1]]
  /\ runUuid = [r \in Runs |-> Undefined]
  /\ attempts = [r \in Runs |-> 0]
  /\ result = [r \in Runs |-> NoDoc]
  /\ error = [r \in Runs |-> NoError]
  /\ submits = [r \in Runs |-> 0]
  /\ fetches = [r \in Runs |-> 0]
  /\ targets = [r \in Runs |-> {}]
  /\ sleeps = [r \in Runs |-> 0]
  /\ saves = [r \in Runs |-> 0]
  /\ waits = [r \in Runs |-> 0]
  /\ failure = [r \in Runs |-> NoFailure]
  /\ posted = [r \in Runs |-> NoDoc]
  /\ loaded = NotLoaded
  /\ store \in PriorStores
  /\ written = [p \in DOMAIN store |->
                  IF p = InputPath("post_2") THEN EarlierPost ELSE EarlierResult]
  /\ manPc = "idle"
  /\ manUuid = Undefined
  /\ manResult = NoDoc
  /\ manError = NoError
  /\ manGets = 0
  /\ wfPc = "none"
  /\ wfPost = NoDoc
  /\ sumPc = "none"
  /\ sumDoc = NoDoc
  /\ printed = <<>>

NextWorkflow ==
  \/ WfStart
  \/ WfSavePost
  \/ WfLoadPost
  \/ WfCall
  \/ \E h \in Handles : SubmitResolves(FirstRun, h)
  \/ \E k \in AdapterErrors : SubmitRejects(FirstRun, k)
  \/ \E s \in Statuses : FetchResolves(FirstRun, s)
  \/ \E k \in AdapterErrors : FetchRejects(FirstRun, k)
  \/ SleepResolves(FirstRun)
  \/ \E d \in WorkflowDocs : WfPresent(d)
  \/ Summarize
  \/ WfSaveResponse
  \/ WfCatch

SpecWorkflow == InitWorkflow /\ [][NextWorkflow]_vars

(***************************************************************************)
(* Properties of runSingleScenarioExample                                  *)
(***************************************************************************)
\* the example is over
WfEnded == wfPc \in {"finished", "caught"}

\* the file inputs/post_2.json holds the request that was submitted
InputStored ==
  /\ InputPath("post_2") \in DOMAIN store
  /\ JSONparse(store[InputPath("post_2")], PostKeys) = posted[FirstRun]

\* a file under ./outputs holds the result getApiResults returned
OutputStored ==
  \E p \in DOMAIN store :
    /\ p[1] = "outputs"
    /\ JSONparse(store[p], DocKeys) = result[FirstRun]

\* C16: in the example, once the job has been submitted the request is in
\* the store, and the request submitted is the document that was read back
\* from the store; and when the example is over and getApiResults returned a
\* terminal result, both the submitted request and the returned result are
\* in the store, whether or not printResultsSummary threw.
C16_WorkflowPersists ==
  /\ submits[FirstRun] > 0 =>
       /\ InputStored
       /\ loaded = Returned(InputPath("post_2"), posted[FirstRun])
       /\ wfPost = posted[FirstRun]
  /\ (WfEnded /\ pc[FirstRun] = "returned") =>
       /\ result[FirstRun].status \in {"optimal", "error"}
       /\ InputStored
       /\ OutputStored

\* the case of C16: the store held the files of an earlier execution, the
\* job came back 'optimal' after some polling, and printResultsSummary threw:
\* response_2 still holds the earlier result, results_file the new one
C16_Witness ==
  /\ wfPc = "caught"
  /\ pc[FirstRun] = "returned"
  /\ result[FirstRun].status = "optimal"
  /\ attempts[FirstRun] = 2
  /\ sumPc = "raised"
  /\ OutputPath("response_2") \in DOMAIN store
  /\ JSONparse(store[OutputPath("response_2")], DocKeys) = EarlierResult
  /\ JSONparse(store[OutputPath("results_file")], DocKeys) = result[FirstRun]
  /\ JSONparse(store[InputPath("post_2")], PostKeys) = SampleScenario

====
